---- MODULE Spec2Model ----
(***************************************************************************)
(* Model of analizador_multitemporal_picaser (src/multi_fits_analyzer.py,  *)
(* lines 14-106): one reference FITS frame is compared with every later    *)
(* frame of the input list; each pairing is suppressed, differenced,       *)
(* thresholded and classified inside its own try/except/finally.           *)
(*                                                                         *)
(* Numbers.  Pixel intensities are exact multiples of 1/2500 (0.0004) and  *)
(* are stored as integers in that unit; one hundredth (the resolution of   *)
(* round(x, 2)) is 25 pixel units.  Every derived value (a cell of         *)
(* now_clean, past_clean, diferencial) is a numeral: Limbs digits in base  *)
(* Base, least significant first, counting parts of a pixel unit of which  *)
(* there are Base^FracLimbs = 10^16, so that the digits FracLimbs + 1 and  *)
(* up are the whole pixel units.                                           *)
(*                                                                         *)
(* gaussian_filter(a, sigma=15) is scipy's: along each axis in turn the    *)
(* array is correlated with the Gaussian samples of radius 4 * 15 = 60,    *)
(* normalised to sum 1, the array being extended by reflection about its   *)
(* edges.  The samples are held to the nearest 10^-16, and the result of   *)
(* the second pass is rounded to the nearest 10^-16 pixel unit.            *)
(*                                                                         *)
(* Doubles.  The code computes in IEEE doubles, whose roundings the model  *)
(* does not follow bit by bit.  Slack bounds how far a value of the code   *)
(* can lie from the numeral of the model; a comparison or a rounding that  *)
(* the slack leaves open (diferencial > umbral, intensidad > umbral * 3,   *)
(* round(intensidad, 2)) can come out either way.  Two equal frames go     *)
(* through the same operations and give the same doubles: their map is     *)
(* exactly zero and nothing is left open.                                  *)
(*                                                                         *)
(* A path is identified by its index in fits_file_paths; disk fixes what   *)
(* opening each one yields.  The 'Firma' column (a constant tag) and the   *)
(* progress messages are left out.  The label "SÍ" is written "SI".        *)
(*                                                                         *)
(* The standard deviation is irrational in general, so the threshold is    *)
(* kept squared: umbral holds (n * umbral)^2 = 25 * (n*Sum(d^2)-Sum(d)^2)  *)
(* for the n cells d of the map, and "v > umbral" is (n*v)^2 > umbral.     *)
(***************************************************************************)
EXTENDS Integers, Sequences, FiniteSets, TLC

\* Longest input list explored (reference included).
MaxFiles == 3

\* np.std(diferencial) * 5
FiveSigma == 5
\* intensidad > (umbral * 3)
PromisingFactor == 3

None == "None"

\* An absent array (Python None, or a local not yet assigned).
NoArray == [shape |-> <<0, 0>>, data |-> <<>>]

Arr(h, w, d) == [shape |-> <<h, w>>, data |-> d]

\* What fits.open(path)[0].data.astype(float) yields: an array, or an exception.
Unreadable == [ok |-> FALSE, frame |-> NoArray]
Readable(a) == [ok |-> TRUE, frame |-> a]

(* The frames the files of a run may hold, in pixel units of 0.0004.       *)
FrameLibrary ==
    { Arr(2, 2, <<0, 0, 0, 4>>),          \* one faint source
      Arr(2, 2, <<36, 28, 0, 0>>),        \* two sources, top row
      Arr(2, 2, <<2150, 50, 2000, 0>>),   \* bright sources, left column
      Arr(1, 2, <<8, 0>>),                \* a single-row frame
      Arr(1, 4, <<0, 12, 0, 0>>) }        \* a frame of another width

DiskContents == {Unreadable} \cup {Readable(a) : a \in FrameLibrary}

(* More frames for the runs of a single pairing: flat fields, a pixel     *)
(* below zero, and sources whose differences fall close to the cutoff and  *)
(* round to equal magnitudes.                                              *)
DetectLibrary ==
    FrameLibrary \cup
    { Arr(2, 2, <<0, 0, 0, 0>>),
      Arr(2, 2, <<4, 4, 4, 4>>),
      Arr(2, 2, <<-4, 0, 0, 0>>),
      Arr(2, 2, <<0, 0, 0, 12>>),
      Arr(2, 2, <<68, 0, 64, 0>>),
      Arr(2, 2, <<60, 0, 56, 0>>),
      Arr(2, 2, <<232, 0, 220, 0>>) }

DetectContents == {Unreadable} \cup {Readable(a) : a \in DetectLibrary}

VARIABLES
    disk,                     \* disk[k+1]: what opening fits_file_paths[k] yields
    pc,                       \* position in analizador_multitemporal_picaser
    i,                        \* loop index (Python index into fits_file_paths)
    data_referencia,
    data_comparacion,
    now_clean,
    past_clean,
    diferencial,
    umbral,
    puntos,
    resultados,
    comparison_result,
    all_comparisons_results,
    stage,                    \* stage[k]: how far the pairing of index k has got
    opened                    \* the indices passed to fits.open, in order

vars == <<disk, pc, i, data_referencia, data_comparacion, now_clean, past_clean,
          diferencial, umbral, puntos, resultados, comparison_result,
          all_comparisons_results, stage, opened>>

\* len(fits_file_paths)
NumFiles == Len(disk)

----------------------------------------------------------------------------
(* Arrays *)

\* s[lo] + ... + s[hi]
RECURSIVE SumRange(_, _, _)
SumRange(s, lo, hi) ==
    IF lo > hi THEN 0
    ELSE IF lo = hi THEN s[lo]
    ELSE SumRange(s, lo, (lo + hi) \div 2) + SumRange(s, (lo + hi) \div 2 + 1, hi)

\* The sequence of the n values f[1], ..., f[n].
Tuple(f, n) == SubSeq(f, 1, n)

Cells(a) == a.shape[1] * a.shape[2]

\* a[y, x], 0-based, row-major storage.
At(a, y, x) == a.data[y * a.shape[2] + x + 1]

Abs(v) == IF v < 0 THEN 0 - v ELSE v

Max(a, b) == IF a >= b THEN a ELSE b

\* The largest absolute value in a sequence of integers.
RECURSIVE MaxAbs(_)
MaxAbs(s) == IF s = <<>> THEN 0 ELSE Max(Abs(Head(s)), MaxAbs(Tail(s)))

----------------------------------------------------------------------------
(* Numerals *)

\* The base of a numeral: the product of two digits fits 32 bits.
Base == 10000

\* The digits of a numeral: enough for the square of a map value times the
\* square of the cell count.
Limbs == 12

RECURSIVE Carry(_, _, _)
Carry(s, k, c) ==
    IF k = Limbs THEN <<s[k] + c>>
    ELSE <<(s[k] + c) % Base>> \o Carry(s, k + 1, (s[k] + c) \div Base)

\* Every digit but the last brought into 0..Base-1; the last digit carries the
\* sign.
BNorm(s) == Carry(Tuple(s, Limbs), 1, 0)

\* The numeral with the integer v as digit k.
Digit(k, v) == BNorm([j \in 1..Limbs |-> IF j = k THEN v ELSE 0])

\* The numeral of an integer.
Big(v) == Digit(1, v)

BAdd(a, b) == BNorm([k \in 1..Limbs |-> a[k] + b[k]])

BSub(a, b) == BNorm([k \in 1..Limbs |-> a[k] - b[k]])

\* c * a for an integer c of absolute value below 200000.
BScale(c, a) == BNorm([k \in 1..Limbs |-> c * a[k]])

\* np.abs
BAbs(a) == IF a[Limbs] < 0 THEN BSub(Big(0), a) ELSE a

\* a * b for numerals that are not negative.
BMulNat(a, b) ==
    BNorm([k \in 1..Limbs |-> SumRange([d \in 1..k |-> a[d] * b[k + 1 - d]], 1, k)])

\* a * b
BMul(a, b) ==
    IF (a[Limbs] < 0) = (b[Limbs] < 0)
    THEN BMulNat(BAbs(a), BAbs(b))
    ELSE BSub(Big(0), BMulNat(BAbs(a), BAbs(b)))

BPositive(a) ==
    a[Limbs] > 0 \/ (a[Limbs] = 0 /\ \E k \in 1..(Limbs - 1) : a[k] # 0)

RECURSIVE BSum(_)
BSum(s) == IF s = <<>> THEN Big(0) ELSE BAdd(Head(s), BSum(Tail(s)))

----------------------------------------------------------------------------
(* The Gaussian filter *)

\* The digits of a numeral below one pixel unit.
FracLimbs == 4

\* The numeral of so many pixel units.
Px(a) == Digit(FracLimbs + 1, a)

\* The whole pixel units in a numeral that is not negative.
Whole(v) ==
    SumRange([k \in 1..(Limbs - FracLimbs) |->
                IF v[k + FracLimbs] = 0 THEN 0
                ELSE v[k + FracLimbs] * Base ^ (k - 1)], 1, Limbs - FracLimbs)

\* A numeral that counts parts of which there are Base^FracLimbs to the part
\* that v counts, to the nearest.
Rescale(v) ==
    LET r == BAdd(v, Digit(FracLimbs, Base \div 2))
    IN  BNorm([k \in 1..Limbs |-> IF k + FracLimbs <= Limbs THEN r[k + FracLimbs]
                                                           ELSE 0])

\* sigma=15
Sigma == 15

\* The kernel runs from -Radius to Radius: int(4.0 * sigma + 0.5).
Radius == 4 * Sigma

\* exp(-t^2 / (2 * sigma^2)) / sum, for t = 0..Radius, to the nearest 10^-16:
\* the FracLimbs digits of each sample, least significant first.
GaussianKernel ==
    <<
       <<8731, 17, 9761, 265>>, <<3248, 9842, 3856, 265>>, <<71, 4481, 6223, 263>>,
       <<6497, 2052, 7094, 260>>, <<2627, 2035, 6853, 256>>, <<6965, 1046, 6026, 251>>,
       <<3156, 8582, 5268, 245>>, <<4530, 6181, 5353, 238>>, <<1314, 4248, 7152, 230>>,
       <<6634, 1342, 1619, 222>>, <<5058, 1169, 9770, 212>>, <<9060, 2701, 2664, 203>>,
       <<9401, 8902, 1382, 193>>, <<5814, 9331, 7009, 182>>, <<5446, 1575, 613, 172>>,
       <<9199, 5950, 3226, 161>>, <<8590, 7278, 5834, 150>>, <<7952, 6822, 9358, 139>>,
       <<3433, 6679, 4644, 129>>, <<4043, 8096, 2454, 119>>, <<4647, 4376, 3460, 109>>,
       <<6289, 8242, 8237, 99>>, <<8726, 2826, 7266, 90>>, <<9782, 4806, 928, 82>>,
       <<8763, 7687, 9512, 73>>, <<1538, 2806, 3217, 66>>, <<282, 5339, 2155, 59>>,
       <<2704, 2421, 6363, 52>>, <<5270, 410, 5806, 46>>, <<363, 8384, 387, 41>>,
       <<1858, 5085, 9959, 35>>, <<5355, 6751, 4327, 31>>, <<850, 3530, 3263, 27>>,
       <<3433, 2503, 6510, 23>>, <<597, 5694, 3792, 20>>, <<1911, 1771, 4822, 17>>,
       <<3081, 530, 9305, 14>>, <<7417, 9555, 6946, 12>>, <<2403, 2779, 7458, 10>>,
       <<1321, 923, 558, 9>>, <<8327, 4049, 5977, 7>>, <<2286, 6631, 3461, 6>>,
       <<3384, 5700, 2772, 5>>, <<9188, 2754, 3689, 4>>, <<50, 151, 6009, 3>>,
       <<6141, 2757, 9547, 2>>, <<5987, 5646, 4137, 2>>, <<9980, 8568, 9630, 1>>,
       <<4192, 7926, 5894, 1>>, <<1065, 6888, 2812, 1>>, <<2299, 4236, 282, 1>>,
       <<8845, 2447, 8215, 0>>, <<1016, 5446, 6534, 0>>, <<9755, 6376, 5174, 0>>,
       <<2899, 5698, 4079, 0>>, <<6586, 9798, 3201, 0>>, <<4432, 306, 2502, 0>>,
       <<3475, 4195, 1946, 0>>, <<9070, 4748, 1507, 0>>, <<504, 3409, 1162, 0>>,
       <<1525, 2504, 892, 0>> >>

\* mode='reflect' (d c b a | a b c d | d c b a): the cell of an axis of n
\* cells that position idx, inside or outside the axis, reads.
Reflect(idx, n) ==
    LET r == idx % (2 * n)
    IN  IF r < n THEN r ELSE 2 * n - 1 - r

\* The longest side of a frame.
MaxSide == 4

\* AxisWeights(n)[k][j]: the weight of cell j in output cell k of an axis of n
\* cells (counted from 1), the sum of the samples that the reflection sends
\* to j, as a numeral of which Px(1) is the weight one.
AxisWeights(n) ==
    Tuple([k \in 1..n |-> Tuple([j \in 1..n |->
        BNorm([d \in 1..Limbs |->
            IF d > FracLimbs THEN 0
            ELSE SumRange([t \in 1..(2 * Radius + 1) |->
                    IF Reflect(k - 1 + t - 1 - Radius, n) = j - 1
                    THEN GaussianKernel[Abs(t - 1 - Radius) + 1][d]
                    ELSE 0], 1, 2 * Radius + 1)])], n)], n)

\* The weights of every axis length, computed once.
KernelWeights == Tuple([n \in 1..MaxSide |-> AxisWeights(n)], MaxSide)

\* gaussian_filter(a, sigma=15): the filter along axis 0, then along axis 1.
GaussianFilter(a) ==
    LET h  == a.shape[1]
        w  == a.shape[2]
        wy == KernelWeights[h]
        wx == KernelWeights[w]
        pass0 == Tuple([k \in 1..(h * w) |->
                    BSum(Tuple([y \in 1..h |->
                        BScale(a.data[(y - 1) * w + ((k - 1) % w) + 1],
                               wy[(k - 1) \div w + 1][y])], h))], h * w)
    IN  [shape |-> a.shape,
         data  |-> Tuple([k \in 1..(h * w) |->
                    Rescale(BSum(Tuple([x \in 1..w |->
                        BMul(wx[((k - 1) % w) + 1][x],
                             pass0[((k - 1) \div w) * w + x])], w)))], h * w)]

\* a - gaussian_filter(a, sigma=15)
Clean(a) ==
    LET g == GaussianFilter(a)
    IN  [shape |-> a.shape,
         data  |-> Tuple([k \in 1..Cells(a) |-> BSub(Px(a.data[k]), g.data[k])],
                         Cells(a))]

\* numpy broadcasting of two 2-D shapes: per axis equal, or one of them 1.
Compatible(s, t) ==
    \A ax \in 1..2 : s[ax] = t[ax] \/ s[ax] = 1 \/ t[ax] = 1

BroadcastShape(s, t) == <<Max(s[1], t[1]), Max(s[2], t[2])>>

\* The element of a that broadcasting puts at [y, x].
BAt(a, y, x) ==
    At(a, IF a.shape[1] = 1 THEN 0 ELSE y, IF a.shape[2] = 1 THEN 0 ELSE x)

\* np.abs(a - b) for compatible shapes.
AbsDiff(a, b) ==
    LET s == BroadcastShape(a.shape, b.shape)
    IN  [shape |-> s,
         data  |-> Tuple([k \in 1..(s[1] * s[2]) |->
                            LET y == (k - 1) \div s[2]
                                x == (k - 1) % s[2]
                            IN  BAbs(BSub(BAt(a, y, x), BAt(b, y, x)))],
                         s[1] * s[2])]

\* The digit of a numeral that counts 10^-12 pixel units.
SlackLimb == 2

\* How far a cell of the code's map or threshold can lie from the numeral of
\* the model: 10^-12 of the largest pixel of the two frames, which is above
\* the rounding error of the 2 * (2 * Radius + 1) products and sums behind a
\* cell of each filter and of the standard deviation.  Equal frames give equal
\* doubles.
Slack(a, b) ==
    IF a = b THEN Big(0)
    ELSE Digit(SlackLimb, Max(MaxAbs(a.data), MaxAbs(b.data)))

----------------------------------------------------------------------------
(* Threshold and extraction *)

\* n^2 times the population variance of the map.
VarNum(m) ==
    LET s == BSum(m.data)
    IN  BSub(BScale(Cells(m), BSum(Tuple([k \in 1..Cells(m) |->
                                            BMul(m.data[k], m.data[k])], Cells(m)))),
             BMul(s, s))

\* (n * umbral)^2 for umbral = np.std(m) * 5.
Umbral(m) == BScale(FiveSigma * FiveSigma, VarNum(m))

\* v > umbral * factor, for the numeral v and a map of n cells.
Exceeds(v, n, usq, factor) ==
    /\ BPositive(v)
    /\ BPositive(BSub(BScale(n * n, BMul(v, v)), BScale(factor * factor, usq)))

\* The truth values that v > umbral * factor can have in the code, v and
\* umbral lying within the slack e of the code's values.
Greater(v, n, usq, factor, e) ==
    {b \in BOOLEAN :
        IF b THEN Exceeds(BAdd(v, BScale(factor, e)), n, usq, factor)
             ELSE ~Exceeds(BSub(v, BScale(factor, e)), n, usq, factor)}

\* A scan that runs down the columns first.
ScanOrderColumnMajor(m) ==
    [k \in 1..Cells(m) |-> <<(k - 1) % m.shape[1], (k - 1) \div m.shape[1]>>]

\* All cells <<y, x>> of a map, rows top to bottom, columns left to right.
ScanOrder(m) ==
    [k \in 1..Cells(m) |-> <<(k - 1) \div m.shape[2], (k - 1) % m.shape[2]>>]

\* The sequences of cells of cs, in order, whose value in m is strictly above
\* umbral.
RECURSIVE Above(_, _, _, _)
Above(m, usq, e, cs) ==
    IF cs = <<>> THEN {<<>>}
    ELSE LET rest == Above(m, usq, e, Tail(cs))
             gt   == Greater(At(m, Head(cs)[1], Head(cs)[2]), Cells(m), usq, 1, e)
         IN  {<<Head(cs)>> \o r : r \in IF TRUE \in gt THEN rest ELSE {}}
             \cup (IF FALSE \in gt THEN rest ELSE {})

\* np.where(m > umbral), as the sequence of <<y, x>>: the results it can have.
Where(m, usq, e) == Above(m, usq, e, ScanOrder(m))

----------------------------------------------------------------------------
(* Classification *)

\* round(v, 2) of a numeral that is not negative, in hundredths: the values it
\* can return.  numpy rounds the double v * 100 to the nearest integer; where
\* v lies within the slack e of the middle between two hundredths, which of
\* the two it returns is decided by digits the model does not hold.
Round2(v, e) ==
    LET q    == Whole(v) \div 25
        tie  == BAdd(Px(25 * q + 12), Digit(FracLimbs, Base \div 2))
    IN  IF BPositive(BSub(BSub(tie, v), e)) THEN {q}
        ELSE IF BPositive(BSub(BSub(v, tie), e)) THEN {q + 1}
        ELSE {q, q + 1}

\* The numeral a magnitude of so many hundredths stands for.
Hundredths(q) == Px(25 * q)

\* f"Picaser-Diff-{i}-{j+1}", j 0-based
CandidateId(idx, j) == "Picaser-Diff-" \o ToString(idx) \o "-" \o ToString(j + 1)

\* The label decided on the rounded magnitude instead of the map value.
EsPrometedorRounded(intensidad, n, usq, e) ==
    UNION {{IF b THEN "SI" ELSE "No" :
                b \in Greater(Hundredths(q), n, usq, PromisingFactor, e)} :
           q \in Round2(intensidad, e)}

\* "SÍ" if intensidad > (umbral * 3) else "No": the labels it can give.
EsPrometedor(intensidad, n, usq, e) ==
    {IF b THEN "SI" ELSE "No" : b \in Greater(intensidad, n, usq, PromisingFactor, e)}

\* The magnitudes round() can return for the cells pts of the map, in order.
RECURSIVE Roundings(_, _, _)
Roundings(m, e, pts) ==
    IF pts = <<>> THEN {<<>>}
    ELSE {<<q>> \o rest : q \in Round2(At(m, Head(pts)[1], Head(pts)[2]), e),
                          rest \in Roundings(m, e, Tail(pts))}

\* The labels the cells pts of the map can get, in order.
RECURSIVE Labels(_, _, _, _)
Labels(m, usq, e, pts) ==
    IF pts = <<>> THEN {<<>>}
    ELSE {<<l>> \o rest :
            l \in EsPrometedor(At(m, Head(pts)[1], Head(pts)[2]), Cells(m), usq, e),
            rest \in Labels(m, usq, e, Tail(pts))}

\* The rows appended by the loop over puntos, mags being what round() returned
\* and labels what the comparisons with umbral * 3 gave.
Classify(pts, idx, mags, labels) ==
    [k \in 1..Len(pts) |->
        [ID              |-> CandidateId(idx, k - 1),
         Coord_X         |-> pts[k][2],
         Coord_Y         |-> pts[k][1],
         Magnitud_Cambio |-> mags[k],
         Prometedor      |-> labels[k]]]

\* df_total[df_total['Prometedor'] == "SÍ"]: the rows labelled promising, order kept.
RECURSIVE PromisingRows(_)
PromisingRows(rows) ==
    IF rows = <<>> THEN <<>>
    ELSE IF Head(rows).Prometedor = "SI"
         THEN <<Head(rows)>> \o PromisingRows(Tail(rows))
         ELSE PromisingRows(Tail(rows))

Orderings(n) ==
    {p \in [1..n -> 1..n] : \A a, b \in 1..n : a # b => p[a] # p[b]}

\* sort_values(by='Magnitud_Cambio', ascending=False) with the default
\* kind='quicksort', which is not a stable sort: every arrangement of the rows
\* in non-increasing magnitude is a possible result.
SortValuesDescending(rows) ==
    {s \in {[k \in 1..Len(rows) |-> rows[p[k]]] : p \in Orderings(Len(rows))} :
        \A k \in 1..(Len(rows) - 1) :
            s[k].Magnitud_Cambio >= s[k + 1].Magnitud_Cambio}

----------------------------------------------------------------------------
(* The run *)

\* The state on entry, once the files are fixed.
Start ==
    /\ pc = "check"
    /\ i = 0
    /\ data_referencia = NoArray
    /\ data_comparacion = NoArray
    /\ now_clean = NoArray
    /\ past_clean = NoArray
    /\ diferencial = NoArray
    /\ umbral = Big(0)
    /\ puntos = <<>>
    /\ resultados = <<>>
    /\ comparison_result = [comparison_file |-> 0, diferencial |-> NoArray,
                            lista_total |-> <<>>, lista_prometedores |-> <<>>,
                            error |-> None]
    /\ all_comparisons_results = <<>>
    /\ stage = [k \in 1..(Len(disk) - 1) |-> "Pending"]
    /\ opened = <<>>

\* Any list of up to MaxFiles paths.
Init ==
    /\ disk \in UNION {[1..n -> DiskContents] : n \in 0..MaxFiles}
    /\ Start

\* A reference and one comparison file.
InitDetect ==
    /\ disk \in [1..2 -> DetectContents]
    /\ Start

\* The dictionary built at the top of each iteration.
FreshResult(idx) ==
    [comparison_file |-> idx, diferencial |-> NoArray, lista_total |-> <<>>,
     lista_prometedores |-> <<>>, error |-> None]

\* An except clause that swallows the exception.
ExceptResultSilent(cr, e) == cr

\* The except clause: the message names the exception.
ExceptResult(cr, e) == [cr EXCEPT !.error = e]

locals == <<data_comparacion, now_clean, past_clean, diferencial, umbral,
            puntos, resultados>>

\* An exception inside the try block: except, then on to finally.
Raise(e) ==
    /\ comparison_result' = ExceptResult(comparison_result, e)
    /\ stage' = [stage EXCEPT ![i] = "Failed"]
    /\ pc' = "finally"

\* if not fits_file_paths or len(fits_file_paths) < 2: return []
CheckArgs ==
    /\ pc = "check"
    /\ pc' = IF NumFiles < 2 THEN "done" ELSE "load_ref"
    /\ UNCHANGED <<disk, i, data_referencia, locals, comparison_result,
                   all_comparisons_results, stage, opened>>

\* A reference failure that is reported but does not end the run.
LoadReferenceContinue ==
    /\ pc = "load_ref"
    /\ opened' = Append(opened, 0)
    /\ data_referencia' = disk[1].frame
    /\ i' = 1
    /\ pc' = "loop"
    /\ UNCHANGED <<disk, locals, comparison_result, all_comparisons_results, stage>>

\* The reference is opened once; a failure returns the empty list.
LoadReference ==
    /\ pc = "load_ref"
    /\ opened' = Append(opened, 0)
    /\ IF disk[1].ok
       THEN /\ data_referencia' = disk[1].frame
            /\ i' = 1
            /\ pc' = "loop"
       ELSE /\ pc' = "done"
            /\ UNCHANGED <<data_referencia, i>>
    /\ UNCHANGED <<disk, locals, comparison_result, all_comparisons_results, stage>>

\* for i in range(1, len(fits_file_paths)): the next iteration starts.
BeginPairing ==
    /\ pc = "loop"
    /\ i < NumFiles
    /\ comparison_result' = FreshResult(i)
    /\ pc' = "load_cmp"
    /\ UNCHANGED <<disk, i, data_referencia, locals, all_comparisons_results,
                   stage, opened>>

\* The loop is exhausted: return all_comparisons_results.
Return ==
    /\ pc = "loop"
    /\ i >= NumFiles
    /\ pc' = "done"
    /\ UNCHANGED <<disk, i, data_referencia, locals, comparison_result,
                   all_comparisons_results, stage, opened>>

\* data_comparacion = fits.open(comparison_path)[0].data.astype(float)
LoadComparison ==
    /\ pc = "load_cmp"
    /\ opened' = Append(opened, i)
    /\ IF disk[i + 1].ok
       THEN /\ data_comparacion' = disk[i + 1].frame
            /\ stage' = [stage EXCEPT ![i] = "Loaded"]
            /\ pc' = "suppress"
            /\ UNCHANGED comparison_result
       ELSE /\ Raise("OSError")
            /\ UNCHANGED data_comparacion
    /\ UNCHANGED <<disk, i, data_referencia, now_clean, past_clean, diferencial,
                   umbral, puntos, resultados, all_comparisons_results>>

\* A suppression that overwrites the reference with its cleaned version.
SuppressInPlace ==
    /\ pc = "suppress"
    /\ now_clean' = Clean(data_referencia)
    /\ past_clean' = Clean(data_comparacion)
    /\ data_referencia' = [data_referencia EXCEPT
                             !.data = [k \in 1..Cells(data_referencia) |->
                                         Whole(BAbs(Clean(data_referencia).data[k]))]]
    /\ stage' = [stage EXCEPT ![i] = "Suppressed"]
    /\ pc' = "difference"
    /\ UNCHANGED <<disk, i, data_comparacion, diferencial, umbral,
                   puntos, resultados, comparison_result, all_comparisons_results,
                   opened>>

\* now_clean and past_clean; gaussian_filter accepts any shape.
Suppress ==
    /\ pc = "suppress"
    /\ now_clean' = Clean(data_referencia)
    /\ past_clean' = Clean(data_comparacion)
    /\ stage' = [stage EXCEPT ![i] = "Suppressed"]
    /\ pc' = "difference"
    /\ UNCHANGED <<disk, i, data_referencia, data_comparacion, diferencial, umbral,
                   puntos, resultados, comparison_result, all_comparisons_results,
                   opened>>

\* diferencial = np.abs(now_clean - past_clean): numpy broadcasts the operands
\* and raises ValueError only when the shapes cannot be broadcast together.
Difference ==
    /\ pc = "difference"
    /\ IF Compatible(now_clean.shape, past_clean.shape)
       THEN /\ diferencial' = AbsDiff(now_clean, past_clean)
            /\ stage' = [stage EXCEPT ![i] = "Differenced"]
            /\ pc' = "threshold"
            /\ UNCHANGED comparison_result
       ELSE /\ Raise("ValueError")
            /\ UNCHANGED diferencial
    /\ UNCHANGED <<disk, i, data_referencia, data_comparacion, now_clean,
                   past_clean, umbral, puntos, resultados,
                   all_comparisons_results, opened>>

\* umbral = np.std(diferencial) * 5; puntos = np.where(diferencial > umbral)
Threshold ==
    /\ pc = "threshold"
    /\ umbral' = Umbral(diferencial)
    /\ puntos' \in Where(diferencial, umbral', Slack(data_referencia, data_comparacion))
    /\ stage' = [stage EXCEPT ![i] = "Thresholded"]
    /\ pc' = "classify"
    /\ UNCHANGED <<disk, i, data_referencia, data_comparacion, now_clean,
                   past_clean, diferencial, resultados, comparison_result,
                   all_comparisons_results, opened>>

\* resultados = []; for j in range(len(puntos[0])): resultados.append({...})
ClassifyPoints ==
    /\ pc = "classify"
    /\ LET e == Slack(data_referencia, data_comparacion)
       IN  \E mags \in Roundings(diferencial, e, puntos),
              labels \in Labels(diferencial, umbral, e, puntos) :
                resultados' = Classify(puntos, i, mags, labels)
    /\ stage' = [stage EXCEPT ![i] = "Classified"]
    /\ pc' = "tables"
    /\ UNCHANGED <<disk, i, data_referencia, data_comparacion, now_clean,
                   past_clean, diferencial, umbral, puntos, comparison_result,
                   all_comparisons_results, opened>>

\* df_total = pd.DataFrame(resultados); df_prometedores = df_total[...].sort_values(...)
\* An empty resultados makes a DataFrame with no columns, and
\* df_total['Prometedor'] raises KeyError.
BuildTables ==
    /\ pc = "tables"
    /\ IF resultados = <<>>
       THEN Raise("KeyError")
       ELSE /\ \E sorted \in SortValuesDescending(PromisingRows(resultados)) :
                 comparison_result' =
                     [comparison_result EXCEPT
                        !.diferencial = diferencial,
                        !.lista_total = resultados,
                        !.lista_prometedores = sorted]
            /\ stage' = [stage EXCEPT ![i] = "Done"]
            /\ pc' = "finally"
    /\ UNCHANGED <<disk, i, data_referencia, locals, all_comparisons_results,
                   opened>>

\* A finally clause after which a failed pairing ends the loop.
FinallyAbortOnError ==
    /\ pc = "finally"
    /\ all_comparisons_results' = Append(all_comparisons_results, comparison_result)
    /\ i' = i + 1
    /\ pc' = IF comparison_result.error # None THEN "done" ELSE "loop"
    /\ UNCHANGED <<disk, data_referencia, locals, comparison_result, stage, opened>>

\* finally: all_comparisons_results.append(comparison_result); next i.
Finally ==
    /\ pc = "finally"
    /\ all_comparisons_results' = Append(all_comparisons_results, comparison_result)
    /\ i' = i + 1
    /\ pc' = "loop"
    /\ UNCHANGED <<disk, data_referencia, locals, comparison_result, stage, opened>>

Next ==
    \/ CheckArgs
    \/ LoadReference
    \/ BeginPairing
    \/ Return
    \/ LoadComparison
    \/ Suppress
    \/ Difference
    \/ Threshold
    \/ ClassifyPoints
    \/ BuildTables
    \/ Finally

Spec == Init /\ [][Next]_vars

SpecDetect == InitDetect /\ [][Next]_vars

----------------------------------------------------------------------------
(* Properties *)

Results == all_comparisons_results

Succeeded(r) == r.error = None

\* What a result says of its pairing, identifiers and file names left out.
OutcomeOf(r) ==
    [failed      |-> r.error # None,
     diferencial |-> r.diferencial,
     candidates  |-> [a \in 1..Len(r.lista_total) |->
                        <<r.lista_total[a].Coord_Y, r.lista_total[a].Coord_X,
                          r.lista_total[a].Magnitud_Cambio,
                          r.lista_total[a].Prometedor>>]]

FailedOutcome == [failed |-> TRUE, diferencial |-> NoArray, candidates |-> <<>>]

\* What pairing a reference frame with a readable frame yields: the map,
\* whether no cell of it can be above the threshold, and the outcomes the pairing can have (one, unless the
\* slack leaves a comparison or a rounding open).
PairingOf(ref, cmp) ==
    IF ~Compatible(ref.shape, cmp.shape)
    THEN [map |-> NoArray, quiet |-> FALSE, outcomes |-> {FailedOutcome}]
    ELSE LET d == AbsDiff(Clean(ref), Clean(cmp))
             u == Umbral(d)
             e == Slack(ref, cmp)
         IN  [map      |-> d,
              quiet    |-> \A c \in 1..Cells(d) :
                              TRUE \notin Greater(d.data[c], Cells(d), u, 1, e),
              outcomes |->
                 UNION {IF pts = <<>> THEN {FailedOutcome}
                        ELSE {[failed      |-> FALSE,
                               diferencial |-> d,
                               candidates  |-> [a \in 1..Len(pts) |->
                                  <<pts[a][1], pts[a][2], mags[a], labels[a]>>]] :
                              mags \in Roundings(d, e, pts),
                              labels \in Labels(d, u, e, pts)} :
                        pts \in Where(d, u, e)}]

\* The frames of the libraries in a fixed order, and the place of a frame in it.
RECURSIVE SeqOf(_)
SeqOf(S) ==
    IF S = {} THEN <<>>
    ELSE LET x == CHOOSE x \in S : TRUE IN <<x>> \o SeqOf(S \ {x})

LibraryFrames == SeqOf(DetectLibrary)

Place(a) == CHOOSE k \in 1..Len(LibraryFrames) : LibraryFrames[k] = a

\* PairingOf for every two frames of the libraries, computed once.
Pairings ==
    Tuple([r \in 1..Len(LibraryFrames) |->
        Tuple([c \in 1..Len(LibraryFrames) |->
                  PairingOf(LibraryFrames[r], LibraryFrames[c])],
              Len(LibraryFrames))], Len(LibraryFrames))

Pairing(ref, cmp) == Pairings[Place(ref)][Place(cmp)]

\* The map the pairing of the reference with a readable, compatible frame has.
MapOf(ref, cmp) == Pairing(ref, cmp).map

\* The scan position of a candidate row in a map.
ScanIndex(m, row) == row.Coord_Y * m.shape[2] + row.Coord_X

\* The run ends without results for want of inputs or of a reference.
Aborts == NumFiles < 2 \/ ~disk[1].ok

\* C1: with at least two inputs and a loadable reference the run returns one
\* result per comparison frame, the k-th for the input of index k, whichever
\* comparison frames fail; results are only ever appended in input order.
C1_OneResultPerComparison ==
    /\ \A k \in 1..Len(Results) : Results[k].comparison_file = k
    /\ (pc = "done" /\ ~Aborts) => Len(Results) = NumFiles - 1

\* C1 witness: a finished run of three files whose first pairing failed and
\* whose second succeeded.
C1_FailureThenSuccess ==
    /\ pc = "done"
    /\ NumFiles = 3
    /\ Len(Results) = 2
    /\ ~Succeeded(Results[1])
    /\ Succeeded(Results[2])

\* C2: a pairing whose map has no cell strictly above the threshold (an all
\* zero map in particular) is a success: no error, the differential populated,
\* no candidates in either list.
C2_ZeroCandidatesSucceeds ==
    \A k \in 1..Len(Results) :
        (/\ disk[k + 1].ok
         /\ Compatible(disk[1].frame.shape, disk[k + 1].frame.shape)
         /\ Pairing(disk[1].frame, disk[k + 1].frame).quiet)
        => /\ Results[k].error = None
           /\ Results[k].diferencial = MapOf(disk[1].frame, disk[k + 1].frame)
           /\ Results[k].lista_total = <<>>
           /\ Results[k].lista_prometedores = <<>>

\* C3: a pairing whose comparison frame has another shape than the reference
\* has error set and no differential.
C3_ShapeMismatchFails ==
    \A k \in 1..Len(Results) :
        (disk[k + 1].ok /\ disk[k + 1].frame.shape # disk[1].frame.shape)
        => (Results[k].error # None /\ Results[k].diferencial = NoArray)

\* C4: every appended result has exactly one of differential and error set;
\* error is set exactly when the pairing failed, the differential exactly when
\* it completed.
C4_ExactlyOneOfDifferentialAndError ==
    \A k \in 1..Len(Results) :
        /\ (Results[k].error # None) # (Results[k].diferencial # NoArray)
        /\ (Results[k].error # None) <=> (stage[k] = "Failed")
        /\ (Results[k].diferencial # NoArray) <=> (stage[k] = "Done")

\* C4 witness: a failed and a completed pairing in the same collection.
C4_BothKindsAppended ==
    \E k, l \in 1..Len(Results) :
        /\ Results[k].error # None /\ Results[k].diferencial = NoArray
        /\ Results[l].error = None /\ Results[l].diferencial # NoArray

\* C5: the run aborts wholesale exactly when fewer than two inputs are given or
\* the reference fails to load: then nothing is ever appended, no comparison
\* frame is opened and no pairing leaves Pending; otherwise the returned
\* collection is not empty.
C5_AbortsWholesale ==
    /\ Aborts => /\ Results = <<>>
                 /\ \A k \in 1..Len(opened) : opened[k] = 0
                 /\ \A k \in DOMAIN stage : stage[k] = "Pending"
    /\ (pc = "done" /\ ~Aborts) => Results # <<>>

\* C5 witness: the reference of three files is unreadable and the run has ended.
C5_ReferenceLoadFailure ==
    /\ pc = "done"
    /\ NumFiles = 3
    /\ ~disk[1].ok
    /\ disk[2].ok
    /\ opened = <<0>>
    /\ Results = <<>>

\* The number a recorded magnitude stands for.
Recorded(row) == Hundredths(row.Magnitud_Cambio)

\* promising_candidates is a subset of all_candidates, in non-increasing
\* recorded magnitude.
SubsetAndDescending(r) ==
    /\ \A p \in 1..Len(r.lista_prometedores) :
          \E a \in 1..Len(r.lista_total) : r.lista_total[a] = r.lista_prometedores[p]
    /\ \A p \in 1..(Len(r.lista_prometedores) - 1) :
          r.lista_prometedores[p].Magnitud_Cambio
              >= r.lista_prometedores[p + 1].Magnitud_Cambio

InPromising(r, row) ==
    \E p \in 1..Len(r.lista_prometedores) : r.lista_prometedores[p] = row

\* The row's value, the map value of its cell or its recorded magnitude, is
\* above threshold x 3 exactly when the row is in the promising list; where
\* the slack of the pairing leaves the comparison open, either.
PromisingExactlyAbove(k, row, value) ==
    InPromising(Results[k], row)
        \in Greater(value, Cells(Results[k].diferencial),
                    Umbral(Results[k].diferencial), PromisingFactor,
                    Slack(disk[1].frame, disk[k + 1].frame))

\* C6 as stated: in a successful pairing the promising list is a subset of the
\* full list in descending magnitude, and a candidate is in it exactly when
\* its recorded (rounded) magnitude is strictly above threshold x 3.
C6_PromisingByRecordedMagnitude ==
    \A k \in 1..Len(Results) :
        Succeeded(Results[k]) =>
            /\ SubsetAndDescending(Results[k])
            /\ \A a \in 1..Len(Results[k].lista_total) :
                  PromisingExactlyAbove(k, Results[k].lista_total[a],
                                        Recorded(Results[k].lista_total[a]))

\* C6 amended: in a successful pairing the promising list is a subset of the
\* full list in descending recorded magnitude, and a candidate is in it exactly
\* when its unrounded map value is strictly above threshold x 3.
C6_PromisingByMapValue ==
    \A k \in 1..Len(Results) :
        Succeeded(Results[k]) =>
            /\ SubsetAndDescending(Results[k])
            /\ \A a \in 1..Len(Results[k].lista_total) :
                  PromisingExactlyAbove(k, Results[k].lista_total[a],
                                        At(Results[k].diferencial,
                                           Results[k].lista_total[a].Coord_Y,
                                           Results[k].lista_total[a].Coord_X))

\* C6 witness: a pairing with promising and other candidates whose first
\* promising magnitude rounds to a value that is not above the cutoff.
C6_PromisingRoundedBelowCutoff ==
    \E k \in 1..Len(Results) :
        /\ Succeeded(Results[k])
        /\ Len(Results[k].lista_prometedores) > 0
        /\ Len(Results[k].lista_prometedores) < Len(Results[k].lista_total)
        /\ TRUE \notin Greater(Recorded(Results[k].lista_prometedores[1]),
                                Cells(Results[k].diferencial),
                                Umbral(Results[k].diferencial), PromisingFactor,
                                Slack(disk[1].frame, disk[k + 1].frame))

\* C7: promising candidates of equal magnitude keep their extraction order
\* (the descending sort is stable).
C7_TiesKeepExtractionOrder ==
    \A k \in 1..Len(Results) :
        \A p, q \in 1..Len(Results[k].lista_prometedores) :
            (/\ p < q
             /\ Results[k].lista_prometedores[p].Magnitud_Cambio
                  = Results[k].lista_prometedores[q].Magnitud_Cambio)
            => ScanIndex(Results[k].diferencial, Results[k].lista_prometedores[p])
                 < ScanIndex(Results[k].diferencial, Results[k].lista_prometedores[q])

\* The candidates of the k-th result, a successful one, are exactly the cells
\* above the threshold, in row-major order; a cell that the slack of the
\* pairing leaves open may be one or not.
RowMajorAboveThreshold(k) ==
    LET r == Results[k]
        u == Umbral(r.diferencial)
        e == Slack(disk[1].frame, disk[k + 1].frame)
    IN  /\ \A a \in 1..(Len(r.lista_total) - 1) :
              ScanIndex(r.diferencial, r.lista_total[a])
                  < ScanIndex(r.diferencial, r.lista_total[a + 1])
        /\ \A y \in 0..(r.diferencial.shape[1] - 1) :
              \A x \in 0..(r.diferencial.shape[2] - 1) :
                  (\E a \in 1..Len(r.lista_total) :
                          /\ r.lista_total[a].Coord_Y = y
                          /\ r.lista_total[a].Coord_X = x)
                  \in Greater(At(r.diferencial, y, x), Cells(r.diferencial),
                              u, 1, e)

\* No identifier occurs twice in the run.
IdsUnique ==
    \A k, l \in 1..Len(Results) :
        \A a \in 1..Len(Results[k].lista_total) :
            \A b \in 1..Len(Results[l].lista_total) :
                (Results[k].lista_total[a].ID = Results[l].lista_total[b].ID)
                => (k = l /\ a = b)

\* C8 as stated: the candidates are the cells above the threshold in row-major
\* order, the j-th (0-based) of comparison i has id "Diff-<i>-<j+1>", and no
\* id repeats within the run.
C8_IdsAsStated ==
    /\ IdsUnique
    /\ \A k \in 1..Len(Results) :
          Succeeded(Results[k]) =>
              /\ RowMajorAboveThreshold(k)
              /\ \A a \in 1..Len(Results[k].lista_total) :
                    Results[k].lista_total[a].ID
                        = "Diff-" \o ToString(k) \o "-" \o ToString(a)

\* C8 amended: the same, with the id the code writes, "Picaser-Diff-<i>-<j+1>".
C8_IdsAsWritten ==
    /\ IdsUnique
    /\ \A k \in 1..Len(Results) :
          Succeeded(Results[k]) =>
              /\ RowMajorAboveThreshold(k)
              /\ \A a \in 1..Len(Results[k].lista_total) :
                    Results[k].lista_total[a].ID
                        = "Picaser-Diff-" \o ToString(k) \o "-" \o ToString(a)

\* C8 witness: a second successful pairing with several candidates and a cell
\* below the threshold.
C8_CandidatesWithGap ==
    /\ Len(Results) = 2
    /\ Succeeded(Results[1])
    /\ Succeeded(Results[2])
    /\ Len(Results[2].lista_total) > 1
    /\ Len(Results[2].lista_total) < Cells(Results[2].diferencial)
    /\ Results[2].lista_total[2].ID = "Picaser-Diff-2-2"

\* The steps a pairing may take.
StageSteps ==
    { <<"Pending", "Loaded">>, <<"Loaded", "Suppressed">>,
      <<"Suppressed", "Differenced">>, <<"Differenced", "Thresholded">>,
      <<"Thresholded", "Classified">>, <<"Classified", "Done">>,
      <<"Pending", "Failed">>, <<"Loaded", "Failed">>, <<"Suppressed", "Failed">> }

\* C9: a pairing only moves along Pending, Loaded, Suppressed, Differenced,
\* Thresholded, Classified, Done, or to Failed from a load or shape-check
\* step; past differencing it never fails, and it never moves backwards.
C9_StageMachine ==
    [][\A k \in DOMAIN stage :
          stage'[k] # stage[k] => <<stage[k], stage'[k]>> \in StageSteps]_vars

\* The outcomes a pairing can have, as a function of the reference frame and
\* of what the pairing's own file holds.
OutcomeFrom(ref, file) ==
    IF ~file.ok THEN {FailedOutcome} ELSE Pairing(ref, file.frame).outcomes

\* C10: the reference is opened once and stays what its file holds, and every
\* result's outcome is one that the reference frame and the pairing's own frame
\* alone give, whatever the other files hold.
C10_OutcomeOfOwnFramesOnly ==
    /\ Cardinality({k \in 1..Len(opened) : opened[k] = 0}) <= 1
    /\ (pc \notin {"check", "load_ref"} /\ ~Aborts)
          => data_referencia = disk[1].frame
    /\ \A k \in 1..Len(Results) :
          OutcomeOf(Results[k]) \in OutcomeFrom(disk[1].frame, disk[k + 1])

\* C10 witness: a pairing with promising candidates that follows a failed load.
C10_SameFrameAfterFailure ==
    /\ pc = "done"
    /\ NumFiles = 3
    /\ Len(Results) = 2
    /\ ~disk[2].ok
    /\ Succeeded(Results[2])
    /\ Len(Results[2].lista_prometedores) > 0

====
